---- MODULE Spec2Model ----
(***************************************************************************)
(* Model of src/src/ktm_can/decoder790.py: the bit/byte helpers, the       *)
(* Decoder790 instance (two attributes) and its decode generator, resumed  *)
(* one next() at a time by the consumer that called decode.                *)
(***************************************************************************)
EXTENDS Integers, Sequences, FiniteSets, TLC

VARIABLES
    args,               \* the arguments __init__ was called with
    emit_unmapped,      \* self.emit_unmapped
    enable_assertions,  \* self.enable_assertions
    gens,               \* consumer -> the generator object decode(msg) gave it
    log,                \* the outcomes a consumer kept of finished calls
    arg,                \* the input handed to a helper called on its own
    ret                 \* what that helper returned

vars == <<args, emit_unmapped, enable_assertions, gens, log, arg, ret>>

-----------------------------------------------------------------------------
(* Python's int operators: unbounded two's complement.                     *)

RECURSIVE BitAnd(_, _)
BitAnd(a, b) ==
    IF a = 0 \/ b = 0 THEN 0
    ELSE IF a = -1 THEN b
    ELSE IF b = -1 THEN a
    ELSE (a % 2) * (b % 2) + 2 * BitAnd(a \div 2, b \div 2)

RECURSIVE BitOr(_, _)
BitOr(a, b) ==
    IF a = 0 THEN b
    ELSE IF b = 0 THEN a
    ELSE IF a = -1 \/ b = -1 THEN -1
    ELSE (IF a % 2 = 1 \/ b % 2 = 1 THEN 1 ELSE 0) + 2 * BitOr(a \div 2, b \div 2)

ShiftRight(a, n) == a \div (2 ^ n)

ShiftLeft(a, n) == a * (2 ^ n)

BitNot(a) == (-a) - 1

-----------------------------------------------------------------------------
(* Module-level helpers.                                                   *)

\* the whole byte is kept
lo_nibble_whole(b) == BitAnd(b, \HFF)

lo_nibble(b) == BitAnd(b, \H0F)

hi_nibble(b) == BitAnd(ShiftRight(b, 4), \H0F)

\* the sign bit is dropped instead of extended
signed12_unsigned(value) == BitAnd(value, \HFFF)

signed12(value) == BitOr(-BitAnd(value, \H800), BitAnd(value, \H7FF))

invert(value) == BitAnd(BitNot(value), \HFF)

parse_big_endian_uint16(high, low) ==
    BitOr(ShiftLeft(BitAnd(high, \HFF), 8), BitAnd(low, \HFF))

-----------------------------------------------------------------------------
(* bytes and struct.                                                       *)

\* msg.data[i] that reads 0 past the end instead of raising
bytes_getitem_padded(data, i) ==
    IF i < Len(data) THEN [ok |-> TRUE, v |-> data[i + 1]]
    ELSE [ok |-> TRUE, v |-> 0]

\* msg.data[i], i >= 0: the byte, or IndexError (ok = FALSE)
bytes_getitem(data, i) ==
    IF i < Len(data) THEN [ok |-> TRUE, v |-> data[i + 1]]
    ELSE [ok |-> FALSE, v |-> 0]

Min(a, b) == IF a < b THEN a ELSE b

\* msg.data[lo:hi], 0 <= lo <= hi: never raises, cut at the end of data
bytes_slice(data, lo, hi) ==
    SubSeq(data, Min(lo, Len(data)) + 1, Min(hi, Len(data)))

\* struct.unpack("<H", buf)[0]: the wrong byte order
struct_unpack_H_little(buf) ==
    IF Len(buf) = 2 THEN [ok |-> TRUE, v |-> buf[2] * 256 + buf[1]]
    ELSE [ok |-> FALSE, v |-> 0]

\* struct.unpack(">H", buf)[0]: struct.error (ok = FALSE) unless 2 bytes
struct_unpack_H(buf) ==
    IF Len(buf) = 2 THEN [ok |-> TRUE, v |-> buf[1] * 256 + buf[2]]
    ELSE [ok |-> FALSE, v |-> 0]

-----------------------------------------------------------------------------
(* Values a field carries. A float is kept as the quotient it was computed *)
(* from: <<n, d>> stands for the double nearest n / d.                     *)

IntV(n) == [t |-> "int", v |-> n]

BoolV(b) == [t |-> "bool", v |-> b]

StrV(s) == [t |-> "str", v |-> s]

\* n / 10.0
DivTen(n) == [t |-> "float", v |-> <<n, 10>>]

\* n / 2.55
Div2_55(n) == [t |-> "float", v |-> <<n * 100, 255>>]

HexDigits ==
    <<"0", "1", "2", "3", "4", "5", "6", "7",
      "8", "9", "A", "B", "C", "D", "E", "F">>

\* f"{b:02X}"
FormatHex02(b) == HexDigits[(b \div 16) + 1] \o HexDigits[(b % 16) + 1]

RECURSIVE JoinSpace(_)
\* " ".join(parts)
JoinSpace(parts) ==
    IF Len(parts) = 0 THEN ""
    ELSE IF Len(parts) = 1 THEN parts[1]
    ELSE parts[1] \o " " \o JoinSpace(Tail(parts))

-----------------------------------------------------------------------------
(* What one resumption of a generator does: it runs the code from the      *)
(* yield it stopped at (k items yielded so far) to the next yield, to an   *)
(* exception, or to the end of the body.                                   *)

NoItem == <<0, "", IntV(0)>>

Yield(id, name, value) ==
    [kind |-> "yield", item |-> <<id, name, value>>, exc |-> ""]

Raise(e) == [kind |-> "raise", item |-> NoItem, exc |-> e]

Return == [kind |-> "return", item |-> NoItem, exc |-> ""]

\* yield id, name, f(data[i]); reading data[i] may raise
YieldByte(id, name, b, value) ==
    IF b.ok THEN Yield(id, name, value) ELSE Raise("IndexError")

\* yield id, name, f(struct.unpack(">H", ...)[0]); unpacking may raise
YieldWord(id, name, w, value) ==
    IF w.ok THEN Yield(id, name, value) ELSE Raise("struct.error")

-----------------------------------------------------------------------------
(* class Decoder790                                                        *)

CAN_ID_THROTTLE_MODE == \H120
CAN_ID_GEAR_CLUTCH == \H129
CAN_ID_THROTTLE_STATE == \H12A
CAN_ID_WHEEL_SPEED == \H12B
CAN_ID_BRAKES == \H290
CAN_ID_TC_BUTTON == \H450
CAN_ID_SENSOR == \H540
CAN_ID_KILL_SWITCH == \H550
CAN_ID_FUEL_LEVEL == \H552
CAN_ID_LIGHTS == \H650

\* the check is made whatever the flag says
do_assert_always(condition) == condition

\* TRUE: returns; FALSE: AssertionError
do_assert(condition) == enable_assertions => condition

\* the list stops at the seven identifiers of the first layouts
is_known_can_id_seven(can_id) ==
    can_id \in {CAN_ID_THROTTLE_MODE, CAN_ID_GEAR_CLUTCH, CAN_ID_THROTTLE_STATE,
                CAN_ID_WHEEL_SPEED, CAN_ID_BRAKES, CAN_ID_TC_BUTTON,
                CAN_ID_SENSOR}

is_known_can_id(can_id) ==
    can_id \in {CAN_ID_THROTTLE_MODE, CAN_ID_GEAR_CLUTCH, CAN_ID_THROTTLE_STATE,
                CAN_ID_WHEEL_SPEED, CAN_ID_BRAKES, CAN_ID_TC_BUTTON,
                CAN_ID_SENSOR, CAN_ID_KILL_SWITCH, CAN_ID_FUEL_LEVEL,
                CAN_ID_LIGHTS}

RECURSIVE HexUpper(_)
\* the digits of format spec X: uppercase hex, no padding
HexUpper(n) ==
    IF n < 16 THEN HexDigits[n + 1]
    ELSE HexUpper(n \div 16) \o HexDigits[(n % 16) + 1]

\* f"{can_id:02X}": at least two digits
FormatId02X(can_id) ==
    IF can_id < 16 THEN "0" \o HexUpper(can_id) ELSE HexUpper(can_id)

get_can_id_name(can_id) ==
    CASE can_id = CAN_ID_THROTTLE_MODE -> "Throttle/Mode"
      [] can_id = CAN_ID_GEAR_CLUTCH -> "Gear/Clutch"
      [] can_id = CAN_ID_THROTTLE_STATE -> "Throttle State"
      [] can_id = CAN_ID_WHEEL_SPEED -> "Wheel/Lean"
      [] can_id = CAN_ID_BRAKES -> "Brakes"
      [] can_id = CAN_ID_TC_BUTTON -> "TC Button"
      [] can_id = CAN_ID_SENSOR -> "Sensor"
      [] can_id = CAN_ID_KILL_SWITCH -> "Kill Switch"
      [] can_id = CAN_ID_FUEL_LEVEL -> "Fuel Level"
      [] can_id = CAN_ID_LIGHTS -> "Lights/LED Status"
      [] OTHER -> "Unknown (0x" \o FormatId02X(can_id) \o ")"

_decode_throttle_mode(msg, k) ==
    LET w  == struct_unpack_H(bytes_slice(msg.data, 0, 2))
        d2 == bytes_getitem(msg.data, 2)
        d3 == bytes_getitem(msg.data, 3)
        kill_switch == ShiftRight(BitAnd(d3.v, \H80), 7)
        throttle_map == lo_nibble(d3.v)
    IN  CASE k = 0 -> YieldWord(msg.id, "rpm", w, IntV(w.v))
          [] k = 1 -> YieldByte(msg.id, "throttle", d2, IntV(d2.v))
          [] k = 2 -> YieldByte(msg.id, "kill_switch", d3, BoolV(kill_switch = 1))
          [] k = 3 -> YieldByte(msg.id, "throttle_map", d3, IntV(throttle_map))
          [] OTHER -> Return

\* the two fields in the other order
_decode_gear_clutch_swapped(msg, k) ==
    LET d0 == bytes_getitem(msg.data, 0)
        gear == hi_nibble(d0.v)
        clutch_in == ShiftRight(BitAnd(d0.v, \H08), 3) = 1
    IN  CASE k = 0 -> YieldByte(msg.id, "clutch_in", d0, BoolV(clutch_in))
          [] k = 1 -> YieldByte(msg.id, "gear", d0, IntV(gear))
          [] OTHER -> Return

_decode_gear_clutch(msg, k) ==
    LET d0 == bytes_getitem(msg.data, 0)
        gear == hi_nibble(d0.v)
        clutch_in == ShiftRight(BitAnd(d0.v, \H08), 3) = 1
    IN  CASE k = 0 -> YieldByte(msg.id, "gear", d0, IntV(gear))
          [] k = 1 -> YieldByte(msg.id, "clutch_in", d0, BoolV(clutch_in))
          [] OTHER -> Return

_decode_throttle_state(msg, k) ==
    LET d0 == bytes_getitem(msg.data, 0)
        d1 == bytes_getitem(msg.data, 1)
        d2 == bytes_getitem(msg.data, 2)
    IN  CASE k = 0 -> YieldByte(msg.id, "throttle_open", d0, IntV(d0.v))
          [] k = 1 -> YieldByte(msg.id, "requested_throttle_map", d1, IntV(d1.v))
          [] k = 2 -> YieldByte(msg.id, "ride_mode", d2, IntV(d2.v))
          [] OTHER -> Return

\* lean_raw / tilt_raw and the angle: the two index reads, left to right
Angle12(id, name, hi, lo) ==
    IF ~hi.ok \/ ~lo.ok THEN Raise("IndexError")
    ELSE Yield(id, name,
               DivTen(signed12(BitAnd(parse_big_endian_uint16(hi.v, lo.v), \HFFF))))

_decode_wheel_speed(msg, k) ==
    LET front_speed == struct_unpack_H(bytes_slice(msg.data, 0, 2))
        rear_speed == struct_unpack_H(bytes_slice(msg.data, 2, 4))
    IN  CASE k = 0 -> YieldWord(msg.id, "front_wheel_speed", front_speed,
                                IntV(front_speed.v))
          [] k = 1 -> YieldWord(msg.id, "rear_wheel_speed", rear_speed,
                                IntV(rear_speed.v))
          [] k = 2 -> Angle12(msg.id, "lean_angle",
                              bytes_getitem(msg.data, 4), bytes_getitem(msg.data, 5))
          [] k = 3 -> Angle12(msg.id, "tilt_angle",
                              bytes_getitem(msg.data, 6), bytes_getitem(msg.data, 7))
          [] OTHER -> Return

_decode_brakes(msg, k) ==
    LET front_brake == struct_unpack_H(bytes_slice(msg.data, 0, 2))
        rear_brake == struct_unpack_H(bytes_slice(msg.data, 2, 4))
    IN  CASE k = 0 -> YieldWord(msg.id, "front_brake_pressure", front_brake,
                                IntV(front_brake.v))
          [] k = 1 -> YieldWord(msg.id, "rear_brake_pressure", rear_brake,
                                IntV(rear_brake.v))
          [] OTHER -> Return

_decode_traction_control(msg, k) ==
    LET d0 == bytes_getitem(msg.data, 0)
        tc_button == BitAnd(d0.v, \H01) = 1
    IN  CASE k = 0 -> YieldByte(msg.id, "traction_control_button", d0, BoolV(tc_button))
          [] OTHER -> Return

\* after kickstand_err: the D5 check, then the coolant temperature
SensorTail(msg) ==
    LET d4 == bytes_getitem(msg.data, 4)
        w  == struct_unpack_H(bytes_slice(msg.data, 5, 7))
    IN  IF ~d4.ok THEN Raise("IndexError")
        ELSE IF ~do_assert(d4.v = 0) THEN Raise("AssertionError")
        ELSE YieldWord(msg.id, "coolant_temp", w, DivTen(w.v))

_decode_sensor(msg, k) ==
    LET w  == struct_unpack_H(bytes_slice(msg.data, 0, 2))
        d2 == bytes_getitem(msg.data, 2)
        d3 == bytes_getitem(msg.data, 3)
        kickstand_up == BitAnd(d3.v, \H01) = 1
        kickstand_err == ShiftRight(BitAnd(d3.v, \H80), 7) = 1
    IN  CASE k = 0 -> YieldWord(msg.id, "rpm", w, IntV(w.v))
          [] k = 1 -> YieldByte(msg.id, "gear", d2, IntV(lo_nibble(d2.v)))
          [] k = 2 -> YieldByte(msg.id, "kickstand_up", d3, BoolV(kickstand_up))
          [] k = 3 -> YieldByte(msg.id, "kickstand_err", d3, BoolV(kickstand_err))
          [] k = 4 -> SensorTail(msg)
          [] OTHER -> Return

_decode_kill_switch(msg, k) ==
    LET d0 == bytes_getitem(msg.data, 0)
        kill_switch_on == BitAnd(d0.v, \H01) = 1
    IN  CASE k = 0 -> YieldByte(msg.id, "kill_switch_on", d0, BoolV(kill_switch_on))
          [] OTHER -> Return

_decode_fuel_level(msg, k) ==
    LET d0 == bytes_getitem(msg.data, 0)
    IN  CASE k = 0 -> YieldByte(msg.id, "fuel_level_percent", d0, Div2_55(d0.v))
          [] OTHER -> Return

_decode_lights(msg, k) ==
    LET d0 == bytes_getitem(msg.data, 0)
        low_beam == BitAnd(d0.v, \H01) = 1
        high_beam == ShiftRight(BitAnd(d0.v, \H02), 1) = 1
        brake_light == ShiftRight(BitAnd(d0.v, \H04), 2) = 1
        turn_left == ShiftRight(BitAnd(d0.v, \H08), 3) = 1
        turn_right == ShiftRight(BitAnd(d0.v, \H10), 4) = 1
    IN  CASE k = 0 -> YieldByte(msg.id, "low_beam_on", d0, BoolV(low_beam))
          [] k = 1 -> YieldByte(msg.id, "high_beam_on", d0, BoolV(high_beam))
          [] k = 2 -> YieldByte(msg.id, "brake_light_on", d0, BoolV(brake_light))
          [] k = 3 -> YieldByte(msg.id, "turn_signal_left", d0, BoolV(turn_left))
          [] k = 4 -> YieldByte(msg.id, "turn_signal_right", d0, BoolV(turn_right))
          [] OTHER -> Return

\* the last branch of decode: every byte of the payload as hex
Unmapped(msg, k) ==
    IF k = 0
    THEN Yield(msg.id, "unmapped",
               StrV(JoinSpace([i \in 1..Len(msg.data) |-> FormatHex02(msg.data[i])])))
    ELSE Return

\* the body of generator decode(msg), resumed after k yields; yield from
\* hands the routine's yields and exceptions through, and its return ends
\* the chain of branches
decode(msg, k) ==
    IF msg.id = CAN_ID_THROTTLE_MODE THEN _decode_throttle_mode(msg, k)
    ELSE IF msg.id = CAN_ID_GEAR_CLUTCH THEN _decode_gear_clutch(msg, k)
    ELSE IF msg.id = CAN_ID_THROTTLE_STATE THEN _decode_throttle_state(msg, k)
    ELSE IF msg.id = CAN_ID_WHEEL_SPEED THEN _decode_wheel_speed(msg, k)
    ELSE IF msg.id = CAN_ID_BRAKES THEN _decode_brakes(msg, k)
    ELSE IF msg.id = CAN_ID_TC_BUTTON THEN _decode_traction_control(msg, k)
    ELSE IF msg.id = CAN_ID_SENSOR THEN _decode_sensor(msg, k)
    ELSE IF msg.id = CAN_ID_KILL_SWITCH THEN _decode_kill_switch(msg, k)
    ELSE IF msg.id = CAN_ID_FUEL_LEVEL THEN _decode_fuel_level(msg, k)
    ELSE IF msg.id = CAN_ID_LIGHTS THEN _decode_lights(msg, k)
    ELSE IF emit_unmapped THEN Unmapped(msg, k)
    ELSE Return

-----------------------------------------------------------------------------
(* The frames the consumers hand to decode.                                *)

MaxLen == 8

MaxChanged == 1

MaxConsumers == 2

MaxCalls == 2

Message(sender_id, data) == [id |-> sender_id, data |-> data]

Zero8 == <<\H00, \H00, \H00, \H00, \H00, \H00, \H00, \H00>>
Full8 == <<\HFF, \HFF, \HFF, \HFF, \HFF, \HFF, \HFF, \HFF>>

Data120 == <<\H06, \H79, \H00, \H00, \H00, \H00, \H00, \H3F>>
Data129 == <<\H30, \H00, \H00, \H00, \H00, \H00, \H00, \H30>>
Data12A == <<\H11, \H28, \H00, \H20, \H00, \H00, \H00, \H00>>
Data12B == <<\H00, \H00, \H02, \H16, \H00, \H02, \H8F, \HFD>>
Data290 == <<\H00, \H80, \H00, \H00, \H00, \H00, \H00, \H00>>
Data450 == <<\H00, \H00, \H01, \H00, \H00, \H00, \H00, \H00>>
Data540 == <<\H02, \H06, \H65, \H00, \H01, \H00, \H01, \HDD>>
Data540Gear7 == <<\H02, \H06, \HAA, \H07, \H01, \H00, \H01, \H5B>>
Data540Coolant == <<\H02, \HFF, \HFF, \H00, \H00, \H00, \HFF, \HFF>>

Fixtures ==
    {Data120, Data129, Data12A, Data12B, Data290, Data450, Data540,
     Data540Gear7, Data540Coolant}

ByteSamples == {\H00, \H01, \H08, \H80, \HFF}

RECURSIVE Changed(_, _)
\* the payloads of S with up to n bytes replaced by sample bytes
Changed(S, n) ==
    IF n = 0 THEN S
    ELSE Changed(S \cup {[p EXCEPT ![i] = v] :
                            p \in S, i \in 1..MaxLen, v \in ByteSamples}, n - 1)

Payloads8 == Fixtures \cup Changed({Zero8, Full8}, MaxChanged)

\* payloads cut short
ShortPayloads ==
    {SubSeq(p, 1, n) : p \in {Zero8, Full8, Data540}, n \in 0..(MaxLen - 1)}

KnownIds ==
    {CAN_ID_THROTTLE_MODE, CAN_ID_GEAR_CLUTCH, CAN_ID_THROTTLE_STATE,
     CAN_ID_WHEEL_SPEED, CAN_ID_BRAKES, CAN_ID_TC_BUTTON, CAN_ID_SENSOR,
     CAN_ID_KILL_SWITCH, CAN_ID_FUEL_LEVEL, CAN_ID_LIGHTS}

UnknownIds == {\H000, \H121, \H999}

Frames ==
    {Message(i, d) : i \in KnownIds \cup UnknownIds,
                     d \in Payloads8 \cup ShortPayloads}

\* the frames whose calls are kept and compared
ProbeFrames ==
    {Message(CAN_ID_SENSOR, Data540), Message(CAN_ID_SENSOR, Data540Coolant),
     Message(CAN_ID_THROTTLE_MODE, SubSeq(Full8, 1, 3)),
     Message(CAN_ID_WHEEL_SPEED, Data12B), Message(\H999, Zero8),
     Message(CAN_ID_GEAR_CLUTCH, Data129)}

-----------------------------------------------------------------------------
(* The decoder instance and the generators of its decode calls.            *)

NoMessage == Message(0, <<>>)

NoGenerator ==
    [status |-> "none", msg |-> NoMessage, k |-> 0, out |-> <<>>, exc |-> ""]

NoReturn == [set |-> FALSE, v |-> 0]

\* Decoder790(emit_unmapped, enable_assertions), with n consumers around it
Construct(n) ==
    /\ args \in [emit_unmapped : BOOLEAN, enable_assertions : BOOLEAN]
    /\ emit_unmapped = args.emit_unmapped
    /\ enable_assertions = args.enable_assertions
    /\ gens = [c \in 1..n |-> NoGenerator]
    /\ log = <<>>

Init ==
    /\ Construct(1)
    /\ arg = 0
    /\ ret = NoReturn

\* decoder.decode(msg), msg one of F: a generator object; none of its body
\* has run
Call(c, F) ==
    /\ gens[c].status = "none"
    /\ \E msg \in F :
          gens' = [gens EXCEPT ![c] =
                     [status |-> "suspended", msg |-> msg, k |-> 0,
                      out |-> <<>>, exc |-> ""]]
    /\ UNCHANGED <<args, emit_unmapped, enable_assertions, log, arg, ret>>

\* the position in the body is kept once for the decoder, not per generator:
\* a yield moves every call in progress on
next_yield_shared(c) ==
    /\ gens[c].status = "suspended"
    /\ LET r == decode(gens[c].msg, gens[c].k)
       IN  /\ r.kind = "yield"
           /\ gens' = [d \in DOMAIN gens |->
                         IF d = c
                         THEN [gens[d] EXCEPT !.k = @ + 1, !.out = Append(@, r.item)]
                         ELSE IF gens[d].status = "suspended"
                         THEN [gens[d] EXCEPT !.k = @ + 1]
                         ELSE gens[d]]
    /\ UNCHANGED <<args, emit_unmapped, enable_assertions, log, arg, ret>>

\* next(gen) that reaches a yield: the consumer receives the item
next_yield(c) ==
    /\ gens[c].status = "suspended"
    /\ LET r == decode(gens[c].msg, gens[c].k)
       IN  /\ r.kind = "yield"
           /\ gens' = [gens EXCEPT ![c].k = @ + 1,
                                   ![c].out = Append(@, r.item)]
    /\ UNCHANGED <<args, emit_unmapped, enable_assertions, log, arg, ret>>

\* a failed check switches the checks off for the calls that follow
next_raise_disarm(c) ==
    /\ gens[c].status = "suspended"
    /\ LET r == decode(gens[c].msg, gens[c].k)
       IN  /\ r.kind = "raise"
           /\ gens' = [gens EXCEPT ![c].status = "raised", ![c].exc = r.exc]
           /\ enable_assertions' =
                  (IF r.exc = "AssertionError" THEN FALSE ELSE enable_assertions)
    /\ UNCHANGED <<args, emit_unmapped, log, arg, ret>>

\* next(gen) that ends in an exception, which the consumer gets
next_raise(c) ==
    /\ gens[c].status = "suspended"
    /\ LET r == decode(gens[c].msg, gens[c].k)
       IN  /\ r.kind = "raise"
           /\ gens' = [gens EXCEPT ![c].status = "raised", ![c].exc = r.exc]
    /\ UNCHANGED <<args, emit_unmapped, enable_assertions, log, arg, ret>>

\* next(gen) that runs off the end of the body: StopIteration
next_return(c) ==
    /\ gens[c].status = "suspended"
    /\ decode(gens[c].msg, gens[c].k).kind = "return"
    /\ gens' = [gens EXCEPT ![c].status = "finished"]
    /\ UNCHANGED <<args, emit_unmapped, enable_assertions, log, arg, ret>>

Ended(g) == g.status \in {"finished", "raised"}

\* the consumer is done with the call and lets the generator go
Release(c) ==
    /\ Ended(gens[c])
    /\ gens' = [gens EXCEPT ![c] = NoGenerator]
    /\ UNCHANGED <<args, emit_unmapped, enable_assertions, log, arg, ret>>

\* the consumer keeps the outcome of the call, then lets the generator go
Keep(c) ==
    /\ Ended(gens[c])
    /\ Len(log) < MaxCalls
    /\ log' = Append(log, [msg |-> gens[c].msg, status |-> gens[c].status,
                           exc |-> gens[c].exc, out |-> gens[c].out])
    /\ gens' = [gens EXCEPT ![c] = NoGenerator]
    /\ UNCHANGED <<args, emit_unmapped, enable_assertions, arg, ret>>

Next ==
    \/ \E c \in DOMAIN gens : Call(c, Frames)
    \/ \E c \in DOMAIN gens : next_yield(c)
    \/ \E c \in DOMAIN gens : next_raise(c)
    \/ \E c \in DOMAIN gens : next_return(c)
    \/ \E c \in DOMAIN gens : Release(c)

Spec == Init /\ [][Next]_vars

\* one decoder, its calls made one after the other and their outcomes kept
NextCalls ==
    \/ \E c \in DOMAIN gens : Call(c, ProbeFrames)
    \/ \E c \in DOMAIN gens : next_yield(c)
    \/ \E c \in DOMAIN gens : next_raise(c)
    \/ \E c \in DOMAIN gens : next_return(c)
    \/ \E c \in DOMAIN gens : Keep(c)

SpecCalls == Init /\ [][NextCalls]_vars

\* one decoder shared by several consumers, whose next() calls interleave
InitShared ==
    /\ Construct(MaxConsumers)
    /\ arg = 0
    /\ ret = NoReturn

NextShared ==
    \/ \E c \in DOMAIN gens : Call(c, ProbeFrames)
    \/ \E c \in DOMAIN gens : next_yield(c)
    \/ \E c \in DOMAIN gens : next_raise(c)
    \/ \E c \in DOMAIN gens : next_return(c)
    \/ \E c \in DOMAIN gens : Release(c)

SpecShared == InitShared /\ [][NextShared]_vars

RECURSIVE Consume(_, _, _)
\* a consumer alone with its generator, taking items until it ends
Consume(msg, k, out) ==
    LET r == decode(msg, k)
    IN  IF r.kind = "yield" THEN Consume(msg, k + 1, Append(out, r.item))
        ELSE [status |-> IF r.kind = "raise" THEN "raised" ELSE "finished",
              exc |-> r.exc, out |-> out]

\* the registry seen three ways, for every 11-bit identifier: the two
\* look-ups called on it, and frames carrying it decoded
NoViews == [known |-> <<>>, name |-> <<>>]

InitRegistry ==
    /\ Construct(1)
    /\ arg \in 0..(2 ^ 11 - 1)
    /\ ret = NoViews

RegistryFrames == {Message(arg, d) : d \in {Zero8, Full8, Data540}}

call_is_known_can_id ==
    /\ ret.known = <<>>
    /\ ret' = [ret EXCEPT !.known = <<is_known_can_id(arg)>>]
    /\ UNCHANGED <<args, emit_unmapped, enable_assertions, gens, log, arg>>

call_get_can_id_name ==
    /\ ret.name = <<>>
    /\ ret' = [ret EXCEPT !.name = <<get_can_id_name(arg)>>]
    /\ UNCHANGED <<args, emit_unmapped, enable_assertions, gens, log, arg>>

NextRegistry ==
    \/ call_is_known_can_id
    \/ call_get_can_id_name
    \/ \E c \in DOMAIN gens : Call(c, RegistryFrames)
    \/ \E c \in DOMAIN gens : next_yield(c)
    \/ \E c \in DOMAIN gens : next_raise(c)
    \/ \E c \in DOMAIN gens : next_return(c)
    \/ \E c \in DOMAIN gens : Release(c)

SpecRegistry == InitRegistry /\ [][NextRegistry]_vars

\* a helper called on its own, on every 12-bit input
InitSigned12 ==
    /\ Construct(1)
    /\ arg \in 0..(2 ^ 12 - 1)
    /\ ret = NoReturn

CallSigned12 ==
    /\ ~ret.set
    /\ ret' = [set |-> TRUE, v |-> signed12(arg)]
    /\ UNCHANGED <<args, emit_unmapped, enable_assertions, gens, log, arg>>

SpecSigned12 == InitSigned12 /\ [][CallSigned12]_vars

-----------------------------------------------------------------------------
(* Claims.                                                                 *)

\* the ten identifiers the claims list
TenIds == {\H120, \H129, \H12A, \H12B, \H290, \H450, \H540, \H550, \H552, \H650}

Started(g) == g.status # "none"

NamesOf(out) == [i \in DOMAIN out |-> out[i][2]]

IsPrefix(s, t) == Len(s) <= Len(t) /\ s = SubSeq(t, 1, Len(s))

\* C1: a frame whose identifier is none of the ten known ones yields nothing
\* and does not fail, whether emit_unmapped is false or true.
C1_UnknownIdYieldsNothing ==
    \A c \in DOMAIN gens :
        (Started(gens[c]) /\ gens[c].msg.id \notin TenIds)
            => gens[c].out = <<>> /\ gens[c].status # "raised"

\* the number of fields each identifier's routine emits, as the claims give it
NormalCount(id) ==
    CASE id = \H120 -> 4
      [] id = \H129 -> 2
      [] id = \H12A -> 3
      [] id = \H12B -> 4
      [] id = \H290 -> 2
      [] id = \H450 -> 1
      [] id = \H540 -> 5
      [] id = \H550 -> 1
      [] id = \H552 -> 1
      [] id = \H650 -> 5

\* C2: with emit_unmapped true, a frame of a known identifier yields its
\* normal fields and then exactly one more item, named "unmapped", last.
C2_UnmappedLastForKnownId ==
    \A c \in DOMAIN gens :
        LET g == gens[c] IN
        (emit_unmapped /\ g.status = "finished"
            /\ g.msg.id \in TenIds /\ Len(g.msg.data) = MaxLen)
            => /\ Len(g.out) = NormalCount(g.msg.id) + 1
               /\ g.out[Len(g.out)][2] = "unmapped"
               /\ \A i \in 1..(Len(g.out) - 1) : g.out[i][2] # "unmapped"

\* C3: with assertions enabled, a 0x540 frame whose byte[4] is not 0x00 fails
\* and its consumer receives no field at all from that call.
C3_NoFieldBeforeAssertionFailure ==
    \A c \in DOMAIN gens :
        LET g == gens[c] IN
        (enable_assertions /\ Ended(g) /\ g.msg.id = \H540
            /\ Len(g.msg.data) = MaxLen /\ g.msg.data[5] # 0)
            => /\ g.status = "raised"
               /\ g.out = <<>>

SensorNames == <<"rpm", "gear", "kickstand_up", "kickstand_err", "coolant_temp">>

C5_SameFrameSameOutcome ==
    /\ emit_unmapped = args.emit_unmapped
    /\ enable_assertions = args.enable_assertions
    /\ \A i, j \in DOMAIN log : log[i].msg = log[j].msg => log[i] = log[j]
    /\ \A c \in DOMAIN gens : \A i \in DOMAIN log :
          (Ended(gens[c]) /\ gens[c].msg = log[i].msg)
              => /\ gens[c].status = log[i].status
                 /\ gens[c].exc = log[i].exc
                 /\ gens[c].out = log[i].out

C5_Witness ==
    \E c \in DOMAIN gens :
        /\ Len(log) = 2
        /\ log[1].exc = "AssertionError"
        /\ log[2].exc = "IndexError"
        /\ gens[c].msg = log[1].msg
        /\ gens[c].status = "raised"
        /\ Len(gens[c].out) = 4

\* C6: with assertions enabled and emit_unmapped false, the 0x540 frame
\* 02 06 65 00 01 00 01 DD decodes without an assertion failure into exactly
\* 5 fields, coolant_temp = 47.7 among them.
C6_SensorFixtureDecodes ==
    \A c \in DOMAIN gens :
        LET g == gens[c] IN
        (enable_assertions /\ ~emit_unmapped /\ Ended(g)
            /\ g.msg = Message(\H540, <<\H02, \H06, \H65, \H00, \H01, \H00, \H01, \HDD>>))
            => /\ g.status = "finished"
               /\ Len(g.out) = 5
               /\ \E i \in DOMAIN g.out :
                     g.out[i][2] = "coolant_temp" /\ g.out[i][3] = DivTen(477)

Fixture12B == Message(\H12B, <<\H00, \H00, \H02, \H16, \H00, \H02, \H8F, \HFD>>)

\* the four items of a finished 0x12B call, the two angles in tenths
WheelItems(lean, tilt) ==
    <<<<\H12B, "front_wheel_speed", IntV(0)>>,
      <<\H12B, "rear_wheel_speed", IntV(534)>>,
      <<\H12B, "lean_angle", DivTen(lean)>>,
      <<\H12B, "tilt_angle", DivTen(tilt)>>>>

C8_ThrottleModeFields ==
    \A c \in DOMAIN gens :
        LET g == gens[c]
            b == g.msg.data
            expected ==
                <<<<\H120, "rpm", IntV(256 * b[1] + b[2])>>,
                  <<\H120, "throttle", IntV(b[3])>>,
                  <<\H120, "kill_switch", BoolV(b[4] >= 128)>>,
                  <<\H120, "throttle_map", IntV(b[4] % 16)>>>>
        IN  (~emit_unmapped /\ Started(g) /\ g.msg.id = \H120 /\ Len(b) = MaxLen)
            => /\ g.status # "raised"
               /\ IsPrefix(g.out, expected)
               /\ (g.status = "finished" => g.out = expected)

C8_Witness ==
    \E c \in DOMAIN gens :
        /\ ~emit_unmapped
        /\ gens[c].status = "finished"
        /\ gens[c].msg = Message(\H120, Full8)
        /\ gens[c].out[1][3] = IntV(65535)
        /\ gens[c].out[2][3] = IntV(255)

\* C9: for every x in 0..4095, signed12(x) is x when bit 11 of x is clear and
\* x - 4096 when it is set, so it lies in -2048..2047; signed12(0) = 0,
\* signed12(0x7FF) = 2047, signed12(0x800) = -2048, signed12(0xFFF) = -1.
C9_Signed12 ==
    ret.set =>
        /\ ret.v = (IF (arg \div 2048) % 2 = 0 THEN arg ELSE arg - 4096)
        /\ ret.v \in -2048..2047
        /\ (arg = 0 => ret.v = 0)
        /\ (arg = 2047 => ret.v = 2047)
        /\ (arg = 2048 => ret.v = -2048)
        /\ (arg = 4095 => ret.v = -1)

C9_Witness == ret.set /\ arg = \H800 /\ ret.v = -2048

\* the bytes each field of an identifier's routine reads: the highest offset
\* read by the i-th field, plus one
FieldReads(id) ==
    CASE id = \H120 -> <<2, 3, 4, 4>>
      [] id = \H129 -> <<1, 1>>
      [] id = \H12A -> <<1, 2, 3>>
      [] id = \H12B -> <<2, 4, 6, 8>>
      [] id = \H290 -> <<2, 4>>
      [] id = \H450 -> <<1>>
      [] id = \H540 -> <<2, 3, 4, 4, 7>>
      [] id = \H550 -> <<1>>
      [] id = \H552 -> <<1>>
      [] id = \H650 -> <<1, 1, 1, 1, 1>>

\* the number of bytes an identifier's routine reads
BytesRead(id) == FieldReads(id)[Len(FieldReads(id))]

\* C10: for a known identifier and a payload shorter than the bytes its
\* routine reads (0x120: 4; 0x129, 0x450, 0x550, 0x552, 0x650: 1; 0x12A: 3;
\* 0x12B: 8; 0x290: 4; 0x540: 7) decode never completes normally, and no
\* field it emitted was computed from a missing byte.
C10_ShortPayloadFails ==
    \A c \in DOMAIN gens :
        LET g == gens[c] IN
        (Started(g) /\ g.msg.id \in TenIds /\ Len(g.msg.data) < BytesRead(g.msg.id))
            => /\ g.status # "finished"
               /\ \A i \in DOMAIN g.out :
                     /\ i <= Len(FieldReads(g.msg.id))
                     /\ FieldReads(g.msg.id)[i] <= Len(g.msg.data)

C10_Witness ==
    \E c \in DOMAIN gens :
        /\ gens[c].msg.id = \H540
        /\ Len(gens[c].msg.data) = 6
        /\ gens[c].status = "raised"
        /\ gens[c].exc = "struct.error"
        /\ Len(gens[c].out) = 4

\* C11: when several decode calls on one decoder are in progress at once and
\* their emissions interleave in any order, each call emits exactly the items,
\* or the failure, it emits when run alone on its own frame, and the flags
\* the calls read keep their construction values.
C11_InterleavedCallsAsAlone ==
    /\ emit_unmapped = args.emit_unmapped
    /\ enable_assertions = args.enable_assertions
    /\ \A c \in DOMAIN gens :
          LET g == gens[c]
              alone == Consume(g.msg, 0, <<>>)
          IN  Started(g) =>
                /\ IsPrefix(g.out, alone.out)
                /\ Ended(g) => /\ g.out = alone.out
                               /\ g.status = alone.status
                               /\ g.exc = alone.exc

C11_Witness ==
    \E c, d \in DOMAIN gens :
        /\ c # d
        /\ gens[c].msg = Message(\H540, Data540)
        /\ gens[c].status = "suspended"
        /\ Len(gens[c].out) = 4
        /\ gens[d].msg = Message(\H12B, Data12B)
        /\ gens[d].status = "suspended"
        /\ Len(gens[d].out) = 2
        /\ enable_assertions

\* the field names of each identifier, in order, as the claim lists them
FieldNames(id) ==
    CASE id = \H120 -> <<"rpm", "throttle", "kill_switch", "throttle_map">>
      [] id = \H129 -> <<"gear", "clutch_in">>
      [] id = \H12A -> <<"throttle_open", "requested_throttle_map", "ride_mode">>
      [] id = \H12B -> <<"front_wheel_speed", "rear_wheel_speed", "lean_angle",
                         "tilt_angle">>
      [] id = \H290 -> <<"front_brake_pressure", "rear_brake_pressure">>
      [] id = \H450 -> <<"traction_control_button">>
      [] id = \H540 -> <<"rpm", "gear", "kickstand_up", "kickstand_err",
                         "coolant_temp">>
      [] id = \H550 -> <<"kill_switch_on">>
      [] id = \H552 -> <<"fuel_level_percent">>
      [] id = \H650 -> <<"low_beam_on", "high_beam_on", "brake_light_on",
                         "turn_signal_left", "turn_signal_right">>

ConsumedBits(id) ==
    CASE id = \H120 -> <<\HFF, \HFF, \HFF, \H8F, \H00, \H00, \H00, \H00>>
      [] id = \H129 -> <<\HF8, \H00, \H00, \H00, \H00, \H00, \H00, \H00>>
      [] id = \H12A -> <<\HFF, \HFF, \HFF, \H00, \H00, \H00, \H00, \H00>>
      [] id = \H12B -> <<\HFF, \HFF, \HFF, \HFF, \H0F, \HFF, \H0F, \HFF>>
      [] id = \H290 -> <<\HFF, \HFF, \HFF, \HFF, \H00, \H00, \H00, \H00>>
      [] id = \H450 -> <<\H01, \H00, \H00, \H00, \H00, \H00, \H00, \H00>>
      [] id = \H540 -> <<\HFF, \HFF, \H0F, \H81, \H00, \HFF, \HFF, \H00>>
      [] id = \H550 -> <<\H01, \H00, \H00, \H00, \H00, \H00, \H00, \H00>>
      [] id = \H552 -> <<\HFF, \H00, \H00, \H00, \H00, \H00, \H00, \H00>>
      [] id = \H650 -> <<\H1F, \H00, \H00, \H00, \H00, \H00, \H00, \H00>>

\* the payload with every unconsumed bit cleared: the one payload all those
\* that agree with it on the consumed bits have in common
ConsumedOnly(id, data) ==
    [i \in 1..MaxLen |-> BitAnd(data[i], ConsumedBits(id)[i])]

RegisteredNames ==
    {"Throttle/Mode", "Gear/Clutch", "Throttle State", "Wheel/Lean", "Brakes",
     "TC Button", "Sensor", "Kill Switch", "Fuel Level", "Lights/LED Status"}

\* the "Unknown (0x..)" fallback: no registered name starts like it
IsFallback(name) == name \notin RegisteredNames

\* C14: for every identifier in 0..0x7FF the three views of the registry
\* agree: is_known_can_id(id) is true exactly when decode (emit_unmapped
\* false, assertions disabled, an 8-byte payload) emits at least one field
\* for id, and exactly when get_can_id_name(id) is a registered name rather
\* than the "Unknown (0x..)" fallback.
C14_RegistryViewsAgree ==
    /\ (ret.known # <<>> /\ ret.name # <<>>)
          => /\ ret.known[1] <=> ret.name[1] \in RegisteredNames
             /\ ~ret.known[1] <=> ret.name[1] = "Unknown (0x" \o FormatId02X(arg) \o ")"
    /\ \A c \in DOMAIN gens :
          LET g == gens[c] IN
          (~emit_unmapped /\ ~enable_assertions /\ Ended(g)
              /\ g.msg.id = arg /\ Len(g.msg.data) = MaxLen)
              => /\ g.status = "finished"
                 /\ ret.known # <<>> => (ret.known[1] <=> Len(g.out) >= 1)
                 /\ ret.name # <<>> => (~IsFallback(ret.name[1]) <=> Len(g.out) >= 1)

C14_Witness ==
    \E c \in DOMAIN gens :
        /\ ~emit_unmapped
        /\ ~enable_assertions
        /\ arg = \H650
        /\ ret.known = <<TRUE>>
        /\ ret.name = <<"Lights/LED Status">>
        /\ gens[c].status = "finished"
        /\ gens[c].msg = Message(\H650, Full8)
        /\ Len(gens[c].out) = 5

====
